---- MODULE Spec2Model ----
(***************************************************************************)
(* A model of the lexer (src/src/lex.js), of the html/js grammar that      *)
(* drives it (src/src/lex-htmljs.js) and of the token pattern engine       *)
(* "fregex" (src/unnamed/part_000).                                        *)
(*                                                                         *)
(* Text is a sequence of one-character strings.  A token is a record;      *)
(* besides the fields the code sets (text, type, mode, line, col, tokens)  *)
(* it carries three history fields that the code does not have and that    *)
(* only the properties read: off (0-based offset of its first character),  *)
(* dir (the directive its rule returned: "" none, "-1" pop, else the mode  *)
(* pushed) and inMode (the mode of the invocation that matched it).        *)
(***************************************************************************)
EXTENDS Integers, Sequences, FiniteSets, TLC

\* ------------------------------------------------------------------ bounds
\* longest input text handed to lex
MaxLen == 4
\* longest input text handed to lex with the html/js grammar
MaxHtmlLen == 3
\* longest token slice handed to a matcher
MaxToks == 3
\* largest x given to fregex.xOrMore
MaxX == 2
\* calls on the html/js grammar start only while its counters are within +-MaxCtr
MaxCtr == 2
\* largest finite limit given to fregex.matchAll
MaxLimit == 2
\* longest text after the opening of a placeholder in the inputs of SpecPlaceholder
MaxNest == 4

\* ------------------------------------------------------------ text helpers
NL == "\n"
\* the backquote character (a string may not hold one)
BQ == "bq"

RECURSIVE Concat(_)
\* Array.prototype.join('') over a sequence of texts
Concat(ss) == IF ss = <<>> THEN <<>> ELSE Head(ss) \o Concat(Tail(ss))

\* code.slice(i), i counted from 0
Slice(s, i) == IF i >= Len(s) THEN <<>> ELSE SubSeq(s, i + 1, Len(s))

\* code.slice(0, i)
Prefix(s, i) == IF i <= 0 THEN <<>> ELSE SubSeq(s, 1, IF i > Len(s) THEN Len(s) ELSE i)

\* String.prototype.startsWith
StartsWith(s, p) == Len(p) <= Len(s) /\ SubSeq(s, 1, Len(p)) = p

\* (token.match(/\n/g) || []).length
CountNL(s) == Cardinality({i \in 1..Len(s) : s[i] = NL})

\* token.lastIndexOf('\n'), counted from 0; -1 when there is none
LastNL(s) == IF \E i \in 1..Len(s) : s[i] = NL
             THEN (CHOOSE i \in 1..Len(s) : s[i] = NL /\ \A j \in (i+1)..Len(s) : s[j] # NL) - 1
             ELSE -1

RECURSIVE RunOf(_, _)
\* the longest prefix of s made of characters of cls: the match of /^[cls]*/
RunOf(s, cls) == IF s = <<>> \/ Head(s) \notin cls THEN <<>>
                 ELSE <<Head(s)>> \o RunOf(Tail(s), cls)

RECURSIVE UpTo(_, _)
\* the shortest prefix of s that is followed by one of the texts in stops, or by
\* the end of s: the match of the lazy /^[\s\S]*?(?=stop1|stop2|$)/
UpTo(s, stops) == IF s = <<>> \/ \E p \in stops : StartsWith(s, p) THEN <<>>
                  ELSE <<Head(s)>> \o UpTo(Tail(s), stops)

\* all texts over alpha of length at most n
Texts(alpha, n) == UNION {[1..k -> alpha] : k \in 0..n}

\* ---------------------------------------------------------------- grammars
(* A grammar maps a mode to an ordered list of rules; a rule has a type    *)
(* (its key) and an ordered list of patterns (a single value is a list of  *)
(* one).  A pattern is a literal string, a regular expression or a         *)
(* function; regular expressions and functions are named and their         *)
(* behaviour is given by ReMatch and FnCall.                               *)
Str(l) == [kind |-> "str", name |-> "", lit |-> l]
Re(n) == [kind |-> "re", name |-> n, lit |-> <<>>]
Fn(n) == [kind |-> "fn", name |-> n, lit |-> <<>>]
Rule(t, ps) == [type |-> t, pats |-> ps]

\* what a function rule returns when it does not match (undefined)
NoMatch(ctx) == [token |-> <<>>, matchType |-> "", ctx |-> ctx]

\* `[match]`, `[match, mode]` or `[match, -1]`, with the counters it leaves
Matched(tok, mt, ctx) == [token |-> tok, matchType |-> mt, ctx |-> ctx]

\* the module-level counters of lex-htmljs.js, as loaded
FreshCtx == [braceDepth |-> 0, templateDepth |-> 0]

\* The characters of the html/js inputs.  Of the rules of the modes js and
\* template only those below can match a text over these characters: the
\* others (whitespace, ln, semicolon, comment, value, hex, number, regex,
\* operator, keyword, string; comment, closeTag, openTag) need a character
\* that is not among them.
HtmlAlphabet == {BQ, "$", "{", "}", "#"}

\* lexHtmlJs.js, lexHtmlJs.template
HtmlJsRules(mode) ==
    CASE mode = "js" -> << Rule("template", <<Fn("jsTemplate")>>),
                           Rule("brace1", <<Fn("brace1")>>),
                           Rule("brace2", <<Fn("brace2")>>),
                           Rule("identifier", <<Re("identifier")>>) >>
      [] mode = "template" -> << Rule("expr", <<Fn("expr")>>),
                                 Rule("template", <<Fn("template")>>),
                                 Rule("text", <<Fn("text")>>) >>
      [] OTHER -> <<>>

\* let expr = code => ...: enters a placeholder; allowHashTemplates is false
Expr(code, ctx) ==
    IF StartsWith(code, <<"$", "{">>)
    THEN Matched(<<"$", "{">>, "js",
                 [braceDepth |-> 0,
                  templateDepth |-> IF ctx.templateDepth <= 0 THEN 1 ELSE ctx.templateDepth])
    ELSE NoMatch(ctx)

\* let template = code => ...: the closing backquote of a template
TemplateEnd(code, ctx) ==
    IF code # <<>> /\ code[1] = BQ
    THEN Matched(<<BQ>>, "-1", [ctx EXCEPT !.templateDepth = @ - 1])
    ELSE NoMatch(ctx)

\* lexHtmlJs.js.template: the opening backquote of a template
JsTemplate(code, ctx) ==
    IF code # <<>> /\ code[1] = BQ
    THEN Matched(<<BQ>>, "template",
                 [braceDepth |-> 0, templateDepth |-> ctx.templateDepth + 1])
    ELSE NoMatch(ctx)

\* lexHtmlJs.js.brace1
Brace1(code, ctx) ==
    IF code # <<>> /\ code[1] = "{"
    THEN Matched(<<"{">>, "", [ctx EXCEPT !.braceDepth = @ + 1])
    ELSE NoMatch(ctx)

\* lexHtmlJs.js.brace2: pops out of js mode when no brace of the placeholder
\* is open and a template is
Brace2(code, ctx) ==
    IF code # <<>> /\ code[1] = "}"
    THEN IF ctx.braceDepth = 0 /\ ctx.templateDepth # 0
         THEN Matched(<<"}">>, "-1", ctx)
         ELSE Matched(<<"}">>, "", [ctx EXCEPT !.braceDepth = @ - 1])
    ELSE NoMatch(ctx)

\* lexHtmlJs.template.text: /^[\s\S]*?(?=<|`|(?<!\\)\${|(?=$))/; the match may
\* be empty
TemplateText(code, ctx) ==
    Matched(UpTo(code, {<<"<">>, <<BQ>>, <<"$", "{">>}), "", ctx)

\* The grammar the lexer's own properties are exercised with: two modes, a
\* literal that shadows a longer one, a list of alternatives, a regular
\* expression that can match the empty string, a function that pushes a mode
\* (its match takes the line break after the parenthesis along) and one that
\* pops.  "!" has no rule in either mode, ")" has none in "main".
ParenAlphabet == {"x", "y", "(", ")", NL, "!"}

ParenRules(mode) ==
    CASE mode = "main" -> << Rule("lit", <<Str(<<"x">>)>>),
                             Rule("word", <<Str(<<"x", "y">>), Str(<<"y">>)>>),
                             Rule("ln", <<Re("ln")>>),
                             Rule("open", <<Fn("open")>>) >>
      [] mode = "sub" -> << Rule("ys", <<Re("ys")>>),
                            Rule("lit", <<Str(<<"x">>)>>),
                            Rule("ln", <<Str(<<NL>>)>>),
                            Rule("open", <<Fn("open")>>),
                            Rule("close", <<Fn("close")>>) >>
      [] OTHER -> <<>>

\* code => { let m = code.match(/^\(\n?/); if (m) return [m[0], 'sub'] }
ParenOpen(code, ctx) ==
    IF code # <<>> /\ code[1] = "("
    THEN Matched(IF Len(code) >= 2 /\ code[2] = NL THEN <<"(", NL>> ELSE <<"(">>, "sub", ctx)
    ELSE NoMatch(ctx)

\* code => code[0] === ')' ? [')', -1] : undefined
ParenClose(code, ctx) ==
    IF code # <<>> /\ code[1] = ")" THEN Matched(<<")">>, "-1", ctx) ELSE NoMatch(ctx)

\* the grammar of the spec's first scenario: {a: {lit: 'x'}}
Scenario1Rules(mode) ==
    CASE mode = "a" -> << Rule("lit", <<Str(<<"x">>)>>) >>
      [] OTHER -> <<>>

\* A grammar with authoring mistakes: the rule missing pushes a mode the
\* grammar does not declare, the rule hollow pushes a mode declared with no
\* rules: {a: {lit: 'x', missing: ..., hollow: ...}, hollow: {}}
MisuseRules(mode) ==
    CASE mode = "a" -> << Rule("lit", <<Str(<<"x">>)>>),
                          Rule("missing", <<Fn("toMissing")>>),
                          Rule("hollow", <<Fn("toHollow")>>) >>
      [] mode = "hollow" -> <<>>
      [] OTHER -> <<>>

\* code => code[0] === '(' ? ['(', 'gone'] : undefined
ToMissing(code, ctx) ==
    IF code # <<>> /\ code[1] = "(" THEN Matched(<<"(">>, "gone", ctx) ELSE NoMatch(ctx)

\* code => code[0] === ')' ? [')', 'hollow'] : undefined
ToHollow(code, ctx) ==
    IF code # <<>> /\ code[1] = ")" THEN Matched(<<")">>, "hollow", ctx) ELSE NoMatch(ctx)

\* grammar[mode]; an undeclared mode has no rules to iterate over
Rules(g, mode) ==
    CASE g = "htmljs" -> HtmlJsRules(mode)
      [] g = "paren" -> ParenRules(mode)
      [] g = "scenario1" -> Scenario1Rules(mode)
      [] g = "misuse" -> MisuseRules(mode)
      [] OTHER -> <<>>

\* Object.keys(grammar), in declaration order
Modes(g) ==
    CASE g = "htmljs" -> <<"js", "template">>
      [] g = "paren" -> <<"main", "sub">>
      [] g = "scenario1" -> <<"a">>
      [] g = "misuse" -> <<"a", "hollow">>
      [] OTHER -> <<>>

\* a mode name that none of the grammars declares
Undeclared == "gone"

\* the modes a call may be started in: none given, a declared one, or one
\* the grammar does not declare
StartModes(g) == {"", Undeclared} \cup {Modes(g)[i] : i \in 1..Len(Modes(g))}

\* the characters the inputs of a grammar are drawn from
Alphabet(g) == IF g = "htmljs" THEN HtmlAlphabet ELSE ParenAlphabet

\* (current.match(pattern) || [])[0] for the named regular expression; <<>>
\* stands for both an empty match and no match (both are falsy)
ReMatch(name, current) ==
    CASE name = "identifier" -> RunOf(current, {"$", "_"})
      [] name = "ln" -> IF StartsWith(current, <<NL>>) THEN <<NL>> ELSE <<>>
      [] name = "ys" -> RunOf(current, {"y"})
      [] OTHER -> <<>>

\* pattern(current, code.slice(0, index), result) || [] for the named function
FnCall(name, current, ctx) ==
    CASE name = "expr" -> Expr(current, ctx)
      [] name = "template" -> TemplateEnd(current, ctx)
      [] name = "jsTemplate" -> JsTemplate(current, ctx)
      [] name = "brace1" -> Brace1(current, ctx)
      [] name = "brace2" -> Brace2(current, ctx)
      [] name = "text" -> TemplateText(current, ctx)
      [] name = "open" -> ParenOpen(current, ctx)
      [] name = "close" -> ParenClose(current, ctx)
      [] name = "toMissing" -> ToMissing(current, ctx)
      [] name = "toHollow" -> ToHollow(current, ctx)
      [] OTHER -> NoMatch(ctx)


\* ------------------------------------------------------------------ fregex
(* A rule is a literal string, an attribute object, an array of rules or a *)
(* function: one of the matchers the constructors below return, or         *)
(* fregex.end.  A matcher returns false, true (a literal, taken as 1 by    *)
(* its caller), or a number of tokens; it may also throw, or never return. *)
Pat(k, s, attrs, n, subs) == [k |-> k, s |-> s, attrs |-> attrs, n |-> n, subs |-> subs]
Lit(s) == Pat("str", s, {}, 0, <<>>)
Obj(attrs) == Pat("obj", "", attrs, 0, <<>>)
Array(subs) == Pat("array", "", {}, 0, subs)
Matcher(k, subs) == Pat(k, "", {}, 0, subs)
XOrMore(x, subs) == Pat("xOrMore", "", {}, x, subs)
End == Pat("end", "", {}, 0, <<>>)

F == [t |-> "false", n |-> 0]
T == [t |-> "true", n |-> 1]
N(k) == [t |-> "num", n |-> k]
THROW == [t |-> "throw", n |-> 0]
LOOP == [t |-> "loop", n |-> 0]
\* the call did not come back with a value
Aborts(r) == r.t \in {"throw", "loop"}

\* prepare, lines 13-14: a single array argument stands for its items
Prepare(rules) ==
    IF Len(rules) = 1 /\ rules[1].k = "array" THEN rules[1].subs ELSE rules

RECURSIVE PrepRule(_, _), Call(_, _), SeqApply(_, _, _), OrLoop(_, _), NorLoop(_, _)
RECURSIVE LookAheadLoop(_, _), XOrMoreLoop(_, _, _, _, _), OrTruthy(_, _)
RECURSIVE SeqApplyFalsy(_, _, _)

\* rule => tokens => tokens[0] == rule
LitRule(rule, tokens) ==
    IF tokens # <<>> /\ tokens[1].text = rule.s THEN T ELSE F

\* rule => tokens => { for (let name in rule) if (tokens[0][name] != rule[name]) return false; return 1 }
\* reading a property of tokens[0] throws when the slice is empty
ObjRule(rule, tokens) ==
    IF rule.attrs = {} THEN N(1)
    ELSE IF tokens = <<>> THEN THROW
    ELSE IF \A a \in rule.attrs : tokens[1][a[1]] = a[2] THEN N(1) ELSE F

SeqApplyFalsy(rules, tokens, i) ==
    IF rules = <<>> THEN N(i)
    ELSE LET used == PrepRule(Head(rules), Slice(tokens, i))
         IN  IF Aborts(used) THEN used
             ELSE IF used.t = "false" \/ used.n = 0 THEN F
             ELSE SeqApplyFalsy(Tail(rules), tokens, i + used.n)

\* fregex(...rules)(tokens): the sequence of the prepared rules from offset i on
SeqApply(rules, tokens, i) ==
    IF rules = <<>> THEN N(i)
    ELSE LET used == PrepRule(Head(rules), Slice(tokens, i))
         IN  IF Aborts(used) THEN used
             ELSE IF used.t = "false" THEN F
             ELSE SeqApply(Tail(rules), tokens, i + used.n)

\* fregex(...rules)(tokens)
Fregex(rules, tokens) == SeqApply(Prepare(rules), tokens, 0)

\* let f = fregex(rules): the rules of not, zeroOrOne and xOrMore as one array
Wrapped(rules, tokens) == Fregex(<<Array(rules)>>, tokens)

OrTruthy(rules, tokens) ==
    IF rules = <<>> THEN F
    ELSE LET used == PrepRule(Head(rules), tokens)
         IN  IF Aborts(used) \/ (used.t # "false" /\ used.n # 0) THEN used
             ELSE OrTruthy(Tail(rules), tokens)

\* fregex.or: the loop over the prepared rules
OrLoop(rules, tokens) ==
    IF rules = <<>> THEN F
    ELSE LET used == PrepRule(Head(rules), tokens)
         IN  IF used.t # "false" THEN used ELSE OrLoop(Tail(rules), tokens)

\* fregex.or(...rules)(tokens)
Or(rules, tokens) == OrLoop(Prepare(rules), tokens)

\* fregex.not(...rules)(tokens)
Not(rules, tokens) ==
    LET r == Wrapped(rules, tokens)
    IN  IF Aborts(r) THEN r ELSE IF r.t = "false" THEN N(0) ELSE F

\* fregex.nor: the loop over the prepared rules; rule(tokens) > 0
NorLoop(rules, tokens) ==
    IF rules = <<>> THEN N(1)
    ELSE LET used == PrepRule(Head(rules), tokens)
         IN  IF Aborts(used) THEN used
             ELSE IF used.n > 0 THEN F
             ELSE NorLoop(Tail(rules), tokens)

\* fregex.nor(...rules)(tokens)
Nor(rules, tokens) == NorLoop(Prepare(rules), tokens)

\* fregex.zeroOrOne(...rules)(tokens)
ZeroOrOne(rules, tokens) ==
    LET used == Wrapped(rules, tokens)
    IN  IF Aborts(used) THEN used ELSE IF used.t = "false" THEN N(0) ELSE used

\* fregex.xOrMore: for (let i=0; tokens.length; i++) { ... }; an iteration that
\* uses no token of a non-empty slice is followed by the same one, for ever
XOrMoreLoop(x, rules, tokens, i, total) ==
    IF tokens = <<>> THEN N(total)
    ELSE LET used == Wrapped(rules, tokens)
         IN  IF Aborts(used) THEN used
             ELSE IF used.t = "false" THEN (IF i >= x THEN N(total) ELSE F)
             ELSE IF used.n = 0 THEN LOOP
             ELSE XOrMoreLoop(x, rules, Slice(tokens, used.n), i + 1, total + used.n)

\* fregex.xOrMore(x, ...rules)(tokens)
XOrMoreApply(x, rules, tokens) == XOrMoreLoop(x, rules, tokens, 0, 0)

\* fregex.lookAhead: the loop over the prepared rules, each on the same slice
LookAheadLoop(rules, tokens) ==
    IF rules = <<>> THEN N(0)
    ELSE LET used == PrepRule(Head(rules), tokens)
         IN  IF Aborts(used) THEN used
             ELSE IF used.t = "false" THEN F
             ELSE LookAheadLoop(Tail(rules), tokens)

\* fregex.lookAhead(...rules)(tokens)
LookAhead(rules, tokens) == LookAheadLoop(Prepare(rules), tokens)

\* fregex.end(tokens)
EndApply(tokens) == IF tokens = <<>> THEN N(0) ELSE F

\* a matcher applied to a token slice
Call(m, tokens) ==
    CASE m.k = "fregex" -> Fregex(m.subs, tokens)
      [] m.k = "or" -> Or(m.subs, tokens)
      [] m.k = "not" -> Not(m.subs, tokens)
      [] m.k = "nor" -> Nor(m.subs, tokens)
      [] m.k = "zeroOrOne" -> ZeroOrOne(m.subs, tokens)
      [] m.k = "xOrMore" -> XOrMoreApply(m.n, m.subs, tokens)
      [] m.k = "lookAhead" -> LookAhead(m.subs, tokens)
      [] m.k = "end" -> EndApply(tokens)
      [] OTHER -> THROW

\* prepare, lines 17-36: the function a rule is turned into, applied to tokens
PrepRule(rule, tokens) ==
    CASE rule.k = "str" -> LitRule(rule, tokens)
      [] rule.k = "array" -> Fregex(<<rule>>, tokens)
      [] rule.k = "obj" -> ObjRule(rule, tokens)
      [] OTHER -> Call(rule, tokens)

\* the tokens of the haystacks: a word and a blank
TokA == [text |-> "a", type |-> "word"]
TokS == [text |-> " ", type |-> "whitespace"]
Slices == Texts({TokA, TokS}, MaxToks)

\* the rule trees the matchers are built from
Prims == {Lit("a"), Obj({<<"type", "whitespace">>}), End}
Rules1 == {<<p>> : p \in Prims} \cup {<<p, q>> : p, q \in Prims}
Kinds == {"fregex", "or", "not", "nor", "zeroOrOne", "lookAhead"}
Build(rs) ==
    {Matcher(k, r) : k \in Kinds, r \in rs}
    \cup {XOrMore(x, r) : x \in 0..MaxX, r \in rs}
    \cup {Array(r) : r \in rs}
Level1 == Build(Rules1)
Rules2 ==
    {<<p>> : p \in Level1}
    \cup {<<p, q>> : p \in Prims, q \in Level1}
    \cup {<<p, q>> : p \in Level1, q \in Prims}
Matchers == {End} \cup {m \in Build(Rules1) \cup Build(Rules2) : m.k # "array"}

\* what matchAll is given as pattern: a matcher of primitive rules, or an
\* array of them
Needles == {m \in Matchers : m \in Level1 \/ m = End} \cup {Array(r) : r \in Rules1}
Patterns == Matchers \cup Needles

\* limit=Infinity: no haystack has that many offsets
Infinity == MaxToks + 1
Limits == 1..MaxLimit \cup {Infinity}

\* what matchAll returns, or how it ends when the pattern does not come back
Found(list) == [t |-> "list", list |-> list]
NotFound(r) == [t |-> r.t, list |-> <<>>]

\* Object.assign(haystack.slice(i, i + count), {index: i})
Match(haystack, i, count) ==
    [index |-> i,
     slice |-> SubSeq(haystack, i + 1, IF i + count > Len(haystack) THEN Len(haystack) ELSE i + count)]

\* if (Array.isArray(pattern)) pattern = fregex(pattern); pattern(tokens)
ApplyPattern(pattern, tokens) ==
    IF pattern.k = "array" THEN Fregex(<<pattern>>, tokens) ELSE Call(pattern, tokens)

RECURSIVE MatchAllLoop(_, _, _, _, _)
\* for (let i = 0; i < haystack.length && result.length < limit; i++) { ... }
MatchAllLoop(pattern, haystack, lim, i, result) ==
    IF ~(i < Len(haystack) /\ Len(result) < lim) THEN Found(result)
    ELSE LET count == ApplyPattern(pattern, Slice(haystack, i))
         IN  IF Aborts(count) THEN NotFound(count)
             ELSE IF count.t # "false"
             THEN MatchAllLoop(pattern, haystack, lim, i + 1,
                               Append(result, Match(haystack, i, count.n)))
             ELSE MatchAllLoop(pattern, haystack, lim, i + 1, result)

\* fregex.matchAll(pattern, haystack, limit)
MatchAll(pattern, haystack, lim) == MatchAllLoop(pattern, haystack, lim, 0, <<>>)

NoPat == Pat("none", "", {}, 0, <<>>)
NotCalled == [t |-> "none", n |-> 0]
NotSearched == [t |-> "none", list |-> <<>>]

\* --------------------------------------------------------------------- lex
\* a token: the string matched, with the properties Object.assign gives it
Tok(text, type, mode, line, col, tokens, off, dir, inMode) ==
    [text |-> text, type |-> type, mode |-> mode, line |-> line, col |-> col,
     tokens |-> tokens, off |-> off, dir |-> dir, inMode |-> inMode]

RECURSIVE Flatten(_)
\* the two loops of step 1: every pattern of every rule of the mode, in order
Flatten(rules) ==
    IF rules = <<>> THEN <<>>
    ELSE [i \in 1..Len(Head(rules).pats) |->
             [type |-> Head(rules).type, pat |-> Head(rules).pats[i]]]
         \o Flatten(Tail(rules))

\* one pattern tried at `current`: a regular expression and a function assign
\* token (a function also matchType), a literal assigns token only when it is
\* a prefix
TryPattern(pattern, current, token, matchType, ctx) ==
    CASE pattern.kind = "re" ->
            [token |-> ReMatch(pattern.name, current), matchType |-> matchType, ctx |-> ctx]
      [] pattern.kind = "fn" -> FnCall(pattern.name, current, ctx)
      [] OTHER ->
            [token |-> IF StartsWith(current, pattern.lit) THEN pattern.lit ELSE token,
             matchType |-> matchType, ctx |-> ctx]

ScanLongest(pairs, i, current, token, matchType, ctx) ==
    LET m(j) == TryPattern(pairs[j].pat, current, <<>>, "", ctx)
        hits == {j \in i..Len(pairs) : m(j).token # <<>>}
        best == CHOOSE j \in hits :
                   \A k \in hits : \/ Len(m(j).token) > Len(m(k).token)
                                   \/ Len(m(j).token) = Len(m(k).token) /\ j <= k
    IN  IF hits = {}
        THEN [token |-> <<>>, matchType |-> "", ctx |-> ctx, idx |-> 0, type |-> ""]
        ELSE [token |-> m(best).token, matchType |-> m(best).matchType, ctx |-> m(best).ctx,
              idx |-> best, type |-> pairs[best].type]

RECURSIVE Scan(_, _, _, _, _, _)
\* the patterns from the i-th on, until one leaves a non-empty token (break Token)
Scan(pairs, i, current, token, matchType, ctx) ==
    IF i > Len(pairs)
    THEN [token |-> <<>>, matchType |-> matchType, ctx |-> ctx, idx |-> 0,
          type |-> IF pairs = <<>> THEN "" ELSE pairs[Len(pairs)].type]
    ELSE LET r == TryPattern(pairs[i].pat, current, token, matchType, ctx)
         IN  IF r.token # <<>>
             THEN [token |-> r.token, matchType |-> r.matchType, ctx |-> r.ctx,
                   idx |-> i, type |-> pairs[i].type]
             ELSE Scan(pairs, i + 1, current, r.token, r.matchType, r.ctx)

\* step 1 of the loop: identify the token at `current` in `mode`
FindToken(g, mode, current, ctx) ==
    Scan(Flatten(Rules(g, mode)), 1, current, <<>>, "", ctx)

\* an invocation of lex: its parameters and locals; trigger holds the token
\* that made it descend while the recursive call runs
Frame(mode, line, col, index) ==
    [mode |-> mode, result |-> <<>>, line |-> line, col |-> col, index |-> index,
     trigger |-> <<>>]

MakeTokenInMode(f, found) ==
    Tok(found.token, found.type, f.mode,
        f.line, f.col, <<>>, f.index, found.matchType, f.mode)

\* Object.assign(token, {type, mode: (matchType && matchType !== -1) ? matchType : mode, line, col})
MakeToken(f, found) ==
    Tok(found.token, found.type,
        IF found.matchType \notin {"", "-1"} THEN found.matchType ELSE f.mode,
        f.line, f.col, <<>>, f.index, found.matchType, f.mode)

\* steps 3 and 4: push the token, advance index, line and col
Advance(f, token) ==
    [f EXCEPT !.index = @ + Len(token.text),
              !.result = Append(@, token),
              !.line = @ + CountNL(token.text),
              !.col = (IF LastNL(token.text) > -1 THEN -LastNL(token.text) ELSE @)
                      + Len(token.text)]

DescendAtTrigger(f, token) ==
    Frame(token.dir, f.line, f.col + Len(token.text), f.index)

\* the recursive call: lex(grammar, code, matchType, [], line, col+token.length, index+token.length)
Descend(f, token) ==
    Frame(token.dir, f.line, f.col + Len(token.text), f.index + Len(token.text))

CompositeOfTrigger(f, children) ==
    Tok(f.trigger[1].text, f.trigger[1].type,
        f.mode, f.line, f.col, children, f.index, f.trigger[1].dir, f.mode)

\* tokens = [token, ...lex(...)]; token = Object.assign(tokens.join(''), {type, tokens, mode, line, col})
Composite(f, children) ==
    Tok(Concat([i \in 1..Len(children) |-> children[i].text]), f.trigger[1].type,
        f.mode, f.line, f.col, children, f.index, f.trigger[1].dir, f.mode)

PopResultWithoutToken(f, token) == f.result

\* return [...result, token]
PopResult(f, token) == Append(f.result, token)

\* the error thrown: the mode, line and col of its message (and, for the
\* properties only, the offset it was thrown at)
NoErr == [mode |-> "", line |-> 0, col |-> 0, off |-> 0]

\* the state of one call of lex: the invocations on the call stack (the
\* innermost last), how the call ended, and the grammar's counters
Start(g, mode, ctx) ==
    [stack |-> <<Frame(IF mode = "" THEN Modes(g)[1] ELSE mode, 1, 1, 0)>>,
     status |-> "running", ret |-> <<>>, err |-> NoErr, ctx |-> ctx]

Top(m) == m.stack[Len(m.stack)]

\* an invocation returns `tokens`: to its caller, which makes the composite
\* token of them and goes on, or out of the call
Return(rest, tokens, ctx) ==
    IF rest = <<>>
    THEN [stack |-> <<>>, status |-> "returned", ret |-> tokens, err |-> NoErr, ctx |-> ctx]
    ELSE LET f == rest[Len(rest)]
             token == Composite(f, f.trigger \o tokens)
         IN  [stack |-> [rest EXCEPT ![Len(rest)] = Advance([f EXCEPT !.trigger = <<>>], token)],
              status |-> "running", ret |-> <<>>, err |-> NoErr, ctx |-> ctx]

\* what the loop's iteration at the top invocation does
IterKind(g, code, m) ==
    LET f == Top(m)
        found == FindToken(g, f.mode, Slice(code, f.index), m.ctx)
    IN  CASE found.token = <<>> -> "throw"
          [] found.matchType = "-1" -> "pop"
          [] found.matchType # "" -> "push"
          [] OTHER -> "plain"

\* one iteration of the while loop of the innermost invocation
Iter(g, code, m) ==
    LET f == Top(m)
        n == Len(m.stack)
        found == FindToken(g, f.mode, Slice(code, f.index), m.ctx)
        token == MakeToken(f, found)
    IN  CASE found.token = <<>> ->
                \* throw new Error(`Unknown token within "${mode}" at ${line}:${col}...`)
                [stack |-> <<>>, status |-> "threw", ret |-> <<>>,
                 err |-> [mode |-> f.mode, line |-> f.line, col |-> f.col, off |-> f.index],
                 ctx |-> found.ctx]
          [] found.matchType = "-1" ->
                Return(SubSeq(m.stack, 1, n - 1), PopResult(f, token), found.ctx)
          [] found.matchType # "" ->
                [m EXCEPT !.stack = Append([@ EXCEPT ![n].trigger = <<token>>], Descend(f, token)),
                          !.ctx = found.ctx]
          [] OTHER ->
                [m EXCEPT !.stack[n] = Advance(f, token), !.ctx = found.ctx]

StepStrict(g, code, m) ==
    IF Top(m).index < Len(code) THEN Iter(g, code, m)
    ELSE IF Len(m.stack) > 1
    THEN [stack |-> <<>>, status |-> "threw", ret |-> <<>>,
          err |-> [mode |-> Top(m).mode, line |-> Top(m).line, col |-> Top(m).col,
                   off |-> Top(m).index],
          ctx |-> m.ctx]
    ELSE Return(<<>>, Top(m).result, m.ctx)

\* the innermost invocation goes on: an iteration while index < code.length,
\* else return result
Step(g, code, m) ==
    IF Top(m).index < Len(code) THEN Iter(g, code, m)
    ELSE Return(SubSeq(m.stack, 1, Len(m.stack) - 1), Top(m).result, m.ctx)

RECURSIVE Run(_, _, _)
\* a whole call of lex, from the state m to its return or its error
Run(g, code, m) == IF m.status # "running" THEN m ELSE Run(g, code, Step(g, code, m))

\* -------------------------------------------------------------- the program
VARIABLES gram, code, startMode, stack, status, ret, err, ctx, pat, toks, used, limit, matches

lexVars == <<gram, code, startMode, stack, status, ret, err, ctx>>
fxVars == <<pat, toks, used, limit, matches>>
vars == <<gram, code, startMode, stack, status, ret, err, ctx, pat, toks, used, limit, matches>>

\* the call in progress, as one value
Machine == [stack |-> stack, status |-> status, ret |-> ret, err |-> err, ctx |-> ctx]

Become(m) ==
    /\ stack' = m.stack
    /\ status' = m.status
    /\ ret' = m.ret
    /\ err' = m.err
    /\ ctx' = m.ctx

Init ==
    /\ gram = "paren"
    /\ code = <<>>
    /\ startMode = ""
    /\ stack = <<>>
    /\ status = "idle"
    /\ ret = <<>>
    /\ err = NoErr
    /\ ctx = FreshCtx
    /\ pat = NoPat
    /\ toks = <<>>
    /\ used = NotCalled
    /\ limit = Infinity
    /\ matches = NotSearched

\* lex(grammar, code, mode) is called; the grammar object keeps its counters
LexCall(G) ==
    /\ status = "idle"
    /\ ctx.braceDepth \in -MaxCtr..MaxCtr
    /\ ctx.templateDepth \in -MaxCtr..MaxCtr
    /\ \E g \in G :
         \E text \in Texts(Alphabet(g), IF g = "htmljs" THEN MaxHtmlLen ELSE MaxLen) :
           \E mode \in StartModes(g) :
             /\ gram' = g
             /\ code' = text
             /\ startMode' = mode
             /\ Become(Start(g, mode, ctx))
    /\ UNCHANGED fxVars

Running == status = "running" /\ Top(Machine).index < Len(code)

\* an iteration that emits a plain token
LexPlain ==
    /\ Running /\ IterKind(gram, code, Machine) = "plain"
    /\ Become(Iter(gram, code, Machine))
    /\ UNCHANGED <<gram, code, startMode>>
    /\ UNCHANGED fxVars

\* an iteration whose rule pushes a mode: the recursive call begins
LexPush ==
    /\ Running /\ IterKind(gram, code, Machine) = "push"
    /\ Become(Iter(gram, code, Machine))
    /\ UNCHANGED <<gram, code, startMode>>
    /\ UNCHANGED fxVars

\* an iteration whose rule pops the mode: the invocation returns
LexPop ==
    /\ Running /\ IterKind(gram, code, Machine) = "pop"
    /\ Become(Iter(gram, code, Machine))
    /\ UNCHANGED <<gram, code, startMode>>
    /\ UNCHANGED fxVars

\* an iteration in which no rule matches: the call throws
LexThrow ==
    /\ Running /\ IterKind(gram, code, Machine) = "throw"
    /\ Become(Iter(gram, code, Machine))
    /\ UNCHANGED <<gram, code, startMode>>
    /\ UNCHANGED fxVars

\* the innermost invocation has consumed the input and returns its tokens
LexEnd ==
    /\ status = "running" /\ Top(Machine).index >= Len(code)
    /\ Become(Step(gram, code, Machine))
    /\ UNCHANGED <<gram, code, startMode>>
    /\ UNCHANGED fxVars

\* the caller has the tokens, or the error, and is ready to call again; what
\* stays behind is the grammar object with its counters
LexDone ==
    /\ status \in {"returned", "threw"}
    /\ gram' = gram
    /\ code' = <<>>
    /\ startMode' = ""
    /\ stack' = <<>>
    /\ status' = "idle"
    /\ ret' = <<>>
    /\ err' = NoErr
    /\ ctx' = ctx
    /\ UNCHANGED fxVars

Next ==
    \/ LexCall({"paren", "scenario1", "misuse"})
    \/ LexPlain
    \/ LexPush
    \/ LexPop
    \/ LexThrow
    \/ LexEnd
    \/ LexDone

Spec == Init /\ [][Next]_vars

\* what a call in progress does next: lex is synchronous code, so a call that
\* has begun runs on until it returns or throws
LexRun == LexPlain \/ LexPush \/ LexPop \/ LexThrow \/ LexEnd

\* one call of lex, from its beginning to its end, with a grammar that nests
\* modes or with one that pushes modes it does not have
NextFair == LexCall({"paren", "misuse"}) \/ LexRun

\* WF_vars(LexRun), with ENABLED <<LexRun>>_vars written as what it amounts
\* to: a call in progress always has a next step
LexRunFair == []<>(status # "running") \/ []<><<LexRun>>_vars

SpecFair == Init /\ [][NextFair]_vars /\ LexRunFair

\* the calls of a program that lexes with the html/js grammar, as expect.js does
InitHtml ==
    /\ gram = "htmljs"
    /\ code = <<>>
    /\ startMode = ""
    /\ stack = <<>>
    /\ status = "idle"
    /\ ret = <<>>
    /\ err = NoErr
    /\ ctx = FreshCtx
    /\ pat = NoPat
    /\ toks = <<>>
    /\ used = NotCalled
    /\ limit = Infinity
    /\ matches = NotSearched

NextHtml ==
    \/ LexCall({"htmljs"})
    \/ LexPlain
    \/ LexPush
    \/ LexPop
    \/ LexThrow
    \/ LexEnd
    \/ LexDone

SpecHtml == InitHtml /\ [][NextHtml]_vars

\* a template literal whose first placeholder has just been opened
OpenPlaceholder == <<BQ, "$", "{">>

\* lex(lexHtmlJs, code, 'js') is called, as expect.js does, on a grammar whose
\* counters are as loaded, with a text that opens a placeholder
LexCallPlaceholder ==
    /\ status = "idle"
    /\ ctx = FreshCtx
    /\ \E text \in Texts(HtmlAlphabet, MaxNest) :
         /\ gram' = "htmljs"
         /\ code' = OpenPlaceholder \o text
         /\ startMode' = "js"
         /\ Become(Start("htmljs", "js", ctx))
    /\ UNCHANGED fxVars

NextPlaceholder ==
    \/ LexCallPlaceholder
    \/ LexPlain
    \/ LexPush
    \/ LexPop
    \/ LexThrow
    \/ LexEnd
    \/ LexDone

SpecPlaceholder == InitHtml /\ [][NextPlaceholder]_vars

\* a pattern is made: a matcher built from a rule tree, or an array of rules
FregexCompile ==
    /\ pat = NoPat
    /\ \E m \in Patterns : pat' = m
    /\ UNCHANGED <<toks, used, limit, matches>>
    /\ UNCHANGED lexVars

\* the matcher is applied to a token slice
FregexInvoke ==
    /\ pat # NoPat /\ pat.k # "array"
    /\ used = NotCalled /\ matches = NotSearched
    /\ \E s \in Slices :
         /\ toks' = s
         /\ used' = Call(pat, s)
    /\ UNCHANGED <<pat, limit, matches>>
    /\ UNCHANGED lexVars

\* fregex.matchAll(pattern, haystack, limit) is called
FregexMatchAll ==
    /\ pat \in Needles
    /\ used = NotCalled /\ matches = NotSearched
    /\ \E s \in Slices, lim \in Limits :
         /\ toks' = s
         /\ limit' = lim
         /\ matches' = MatchAll(pat, s, lim)
    /\ UNCHANGED <<pat, used>>
    /\ UNCHANGED lexVars

NextFregex == FregexCompile \/ FregexInvoke \/ FregexMatchAll

SpecFregex == Init /\ [][NextFregex]_vars

\* ------------------------------------------------------ properties of lex
RECURSIVE AllTokens(_)
\* the tokens of a sequence, with their children at every depth
AllTokens(ts) ==
    IF ts = <<>> THEN {}
    ELSE {Head(ts)} \cup AllTokens(Head(ts).tokens) \cup AllTokens(Tail(ts))

\* every token the call has emitted so far
Emitted ==
    AllTokens(ret)
    \cup UNION {AllTokens(stack[i].result) \cup AllTokens(stack[i].trigger) : i \in 1..Len(stack)}

\* 1-based line and column of the character at 0-based offset off of text
LineAt(text, off) == 1 + CountNL(Prefix(text, off))
ColAt(text, off) == off - LastNL(Prefix(text, off))

\* C1: when lex returns, the texts of the top-level tokens, concatenated in
\* order, are the input text.
RoundTrip ==
    status = "returned" => Concat([i \in 1..Len(ret) |-> ret[i].text]) = code

\* C4: every token emitted, at any depth, has line = 1 + the number of line
\* breaks before its first character and col = the number of characters
\* between the last of them (or the start of the input) and it, plus 1.
PositionAccuracy ==
    \A t \in Emitted : t.line = LineAt(code, t.off) /\ t.col = ColAt(code, t.off)

\* what a pattern matches at `current`, on its own
OwnMatch(pattern, current) ==
    CASE pattern.kind = "re" -> ReMatch(pattern.name, current)
      [] pattern.kind = "fn" -> FnCall(pattern.name, current, FreshCtx).token
      [] OTHER -> IF StartsWith(current, pattern.lit) THEN pattern.lit ELSE <<>>

\* no pattern of the mode matches a non-empty prefix at offset off
NothingMatches(g, mode, off) ==
    \A p \in {Flatten(Rules(g, mode))[i] : i \in 1..Len(Flatten(Rules(g, mode)))} :
        OwnMatch(p.pat, Slice(code, off)) = <<>>

\* C5: when no rule of the current mode matches at the cursor, lex throws, and
\* the error names the mode of that invocation and the line and column of the
\* cursor, also in a pushed mode.
ErrorLocatesFailure ==
    /\ status = "threw" =>
          /\ NothingMatches(gram, err.mode, err.off)
          /\ err.line = LineAt(code, err.off)
          /\ err.col = ColAt(code, err.off)
    /\ status = "returned" =>
          \A t \in AllTokens(ret) : ~NothingMatches(gram, t.inMode, t.off)

\* C6: the token emitted at a cursor position is that of the first pattern, in
\* declaration order of the mode, that matches a non-empty prefix there: an
\* earlier match wins over a later, longer one, and an empty match is no match.
FirstRuleWins ==
    \A t \in Emitted :
        t.tokens = <<>> =>
           LET pairs == Flatten(Rules(gram, t.inMode))
               cur == Slice(code, t.off)
           IN  \E i \in 1..Len(pairs) :
                  /\ OwnMatch(pairs[i].pat, cur) # <<>>
                  /\ \A j \in 1..(i - 1) : OwnMatch(pairs[j].pat, cur) = <<>>
                  /\ t.type = pairs[i].type
                  /\ t.text = OwnMatch(pairs[i].pat, cur)

\* a token "x" of rule lit was emitted where the later literal "xy" matches
\* too, and in mode sub where the earlier rule ys matches the empty string
FirstRuleWinsWitness ==
    /\ gram = "paren"
    /\ \E t \in Emitted :
          /\ t.type = "lit" /\ t.inMode = "main"
          /\ StartsWith(Slice(code, t.off), <<"x", "y">>)
    /\ \E t \in Emitted : t.type = "lit" /\ t.inMode = "sub"

\* the last child of a composite token is the token that popped the mode entered
EndsWithPop(t) ==
    LET last == t.tokens[Len(t.tokens)]
    IN  Len(t.tokens) >= 2 /\ last.tokens = <<>> /\ last.dir = "-1" /\ last.inMode = t.dir

\* C7 as stated: the children of every composite token end with the token that
\* popped the mode entered, or there are none (after the text that pushed)
\* because the input ended.
ModeBalanceOrEmpty ==
    status = "returned" =>
        \A t \in AllTokens(ret) :
            t.tokens # <<>> => EndsWithPop(t) \/ Len(t.tokens) = 1

\* C7, amended: the children of every composite token end with the token that
\* popped the mode entered, or the input ended inside the mode: the composite
\* token then reaches the end of the input and holds the tokens found so far.
ModeBalance ==
    status = "returned" =>
        \A t \in AllTokens(ret) :
            t.tokens # <<>> => EndsWithPop(t) \/ t.off + Len(t.text) = Len(code)

\* a call has returned a composite token closed by its pop before the end of
\* the input, and one left open by the end of the input after some tokens
ModeBalanceWitness ==
    /\ status = "returned"
    /\ \E t \in AllTokens(ret) :
          t.tokens # <<>> /\ EndsWithPop(t) /\ t.off + Len(t.text) < Len(code)
    /\ \E t \in AllTokens(ret) :
          t.tokens # <<>> /\ ~EndsWithPop(t) /\ Len(t.tokens) >= 2

\* --------------------------------------- properties of the html/js grammar
RECURSIVE Visible(_)
\* the tokens as the caller sees them: without the history fields
Visible(ts) ==
    [i \in 1..Len(ts) |->
        [text |-> ts[i].text, type |-> ts[i].type, mode |-> ts[i].mode,
         line |-> ts[i].line, col |-> ts[i].col, tokens |-> Visible(ts[i].tokens)]]

\* how the call in hand ends on a grammar whose counters are as loaded
FreshOutcome == Run(gram, code, Start(gram, startMode, FreshCtx))

\* C2: whatever calls came before, a call of lex on the html/js grammar ends as
\* it does on a freshly loaded grammar: with the same tokens, or the same error.
CountersPerInvocation ==
    status \in {"returned", "threw"} =>
        /\ FreshOutcome.status = status
        /\ Visible(FreshOutcome.ret) = Visible(ret)
        /\ FreshOutcome.err = err

\* ---------------------------------------------------- properties of fregex
Invoked == used # NotCalled

\* C3: a matcher built from literals, attribute objects, arrays and the
\* combinators never throws, whatever the slice: it returns a count or false.
NeverThrows == Invoked => used.t # "throw"

RECURSIVE Repeats(_, _, _)
\* how many times in a row, up to k, the wrapped sequence matches from the
\* start of the slice on, each time on what the previous match left
Repeats(rules, tokens, k) ==
    IF k = 0 THEN 0
    ELSE LET r == Wrapped(rules, tokens)
         IN  IF r.t # "num" THEN 0
             ELSE 1 + Repeats(rules, Slice(tokens, r.n), k - 1)

RECURSIVE GreedyTotal(_, _)
\* the tokens used by matching the wrapped sequence again and again until it
\* fails, or nothing is left or used
GreedyTotal(rules, tokens) ==
    LET r == Wrapped(rules, tokens)
    IN  IF tokens = <<>> \/ r.t # "num" \/ r.n = 0 THEN 0
        ELSE r.n + GreedyTotal(rules, Slice(tokens, r.n))

\* C8: xOrMore(n, ...) matches the wrapped sequence again and again until it
\* fails; it returns the total count if and only if that made at least n
\* repetitions, and false in every other case, also when the slice runs out
\* before the n-th repetition.
AtLeastCounts ==
    (Invoked /\ pat.k = "xOrMore" /\ ~Aborts(used)) =>
        /\ used.t = "num" <=> Repeats(pat.subs, toks, pat.n) = pat.n
        /\ used.t = "num" => used.n = GreedyTotal(pat.subs, toks)
        /\ used.t # "num" => used = F

\* C9: not(p) returns 0 if and only if p returns false, and false otherwise.
NotIsNegation ==
    (Invoked /\ pat.k = "not") =>
        IF Wrapped(pat.subs, toks) = F THEN used = N(0) ELSE used = F

\* the results of the alternatives of or, in order
Alternatives == [i \in 1..Len(Prepare(pat.subs)) |-> PrepRule(Prepare(pat.subs)[i], toks)]

\* C10: or returns the result of its first alternative that does not return
\* false, whatever that result is (0 too), and false only if all of them do.
OrFirstSuccess ==
    (Invoked /\ pat.k = "or") =>
        \/ \E i \in 1..Len(Alternatives) :
              /\ Alternatives[i] # F
              /\ \A j \in 1..(i - 1) : Alternatives[j] = F
              /\ used = Alternatives[i]
        \/ /\ \A i \in 1..Len(Alternatives) : Alternatives[i] = F
           /\ used = F

\* or has returned the 0 of its first alternative although the second one
\* matches a token
OrFirstSuccessWitness ==
    /\ Invoked /\ pat.k = "or"
    /\ Len(Alternatives) = 2
    /\ Alternatives[1] = N(0) /\ Alternatives[2].n > 0 /\ used = N(0)

\* the results of the rules of nor and lookAhead, each on the whole slice
OnSlice == [i \in 1..Len(Prepare(pat.subs)) |-> PrepRule(Prepare(pat.subs)[i], toks)]

\* a result that is a match of at least one token
Positive(r) == r.t \in {"true", "num"} /\ r.n > 0

\* C11: nor returns 1, one token of the slice, if and only if no wrapped rule
\* matches a positive count at the start of the slice; it returns false in
\* every other case.
NorIsNegatedClass ==
    (Invoked /\ pat.k = "nor") =>
        IF \E i \in 1..Len(OnSlice) : Positive(OnSlice[i])
        THEN used = F
        ELSE used = N(1) /\ Len(toks) >= 1

\* C12: lookAhead returns 0 if and only if the sequence of its rules, each
\* applied to what the previous ones left of the slice, matches at the start
\* of the slice; it returns false otherwise.
LookAheadIsSequence ==
    (Invoked /\ pat.k = "lookAhead") =>
        IF Fregex(pat.subs, toks).t = "num" THEN used = N(0) ELSE used = F

Searched == matches # NotSearched

\* the offsets of the haystack at which the pattern does not return false
Hits == {i \in 0..(Len(toks) - 1) : ApplyPattern(pat, Slice(toks, i)) # F}

\* the tokens the pattern matched at offset i
MatchedAt(i) ==
    LET n == ApplyPattern(pat, Slice(toks, i)).n
    IN  SubSeq(toks, i + 1, IF i + n > Len(toks) THEN Len(toks) ELSE i + n)

\* C13: matchAll returns, for the first `limit` offsets of the haystack, in
\* ascending order, at which the pattern does not return false (offsets inside
\* an earlier match too), the tokens matched there tagged with the offset; for
\* a pattern of one literal these are the offsets at which the literal occurs.
MatchAllScans ==
    Searched =>
        /\ matches.t = "list"
        /\ Len(matches.list) = (IF Cardinality(Hits) < limit THEN Cardinality(Hits) ELSE limit)
        /\ \A k \in 1..Len(matches.list) :
              /\ matches.list[k].index \in Hits
              /\ Cardinality({i \in Hits : i < matches.list[k].index}) = k - 1
              /\ matches.list[k].slice = MatchedAt(matches.list[k].index)
        /\ (pat = Matcher("fregex", <<Lit("a")>>) /\ limit = Infinity) =>
              {matches.list[k].index : k \in 1..Len(matches.list)}
                  = {i \in 0..(Len(toks) - 1) : toks[i + 1].text = "a"}

\* a result that is a match: a count, or the true of a literal
Succeeds(r) == r.t \in {"true", "num"}

RECURSIVE SubResults(_, _)
\* what the sub-rules return, each on what the ones before it left of the
\* slice, up to the first one that does not match
SubResults(rules, tokens) ==
    IF rules = <<>> THEN <<>>
    ELSE LET r == PrepRule(Head(rules), tokens)
         IN  IF Succeeds(r) THEN <<r>> \o SubResults(Tail(rules), Slice(tokens, r.n))
             ELSE <<r>>

RECURSIVE Sum(_)
Sum(rs) == IF rs = <<>> THEN 0 ELSE Head(rs).n + Sum(Tail(rs))

\* result is what the specification gives for the sequence of rules on the slice
SequenceOf(rules, tokens, result) ==
    LET sub == SubResults(rules, tokens)
    IN  /\ (Len(sub) = Len(rules) /\ \A j \in 1..Len(sub) : Succeeds(sub[j]))
              => result = N(Sum(sub))
        /\ (sub # <<>> /\ sub[Len(sub)] = F) => result = F

\* the slice the j-th sub-rule of the matcher is applied to
RestAt(j) ==
    Slice(toks, Sum(SubSeq(SubResults(Prepare(pat.subs), toks), 1, j - 1)))

ZeroOrMoreNeverFails ==
    (Invoked /\ pat.k = "xOrMore" /\ pat.n = 0) =>
        /\ used.t = "num" /\ used.n >= 0
        /\ Wrapped(pat.subs, toks) = F => used = N(0)

\* ------------------------------------------- properties of lex, continued
\* a token whose rule pushed a mode, as matched (the first child of a
\* composite token)
IsTrigger(t) == t.tokens = <<>> /\ t.dir \notin {"", "-1"}

\* every sequence of tokens of the call: the tokens returned, those each
\* invocation has so far, and the children of every composite token
TokenSeqs ==
    {ret} \cup {stack[i].result : i \in 1..Len(stack)}
    \cup {t.tokens : t \in {u \in Emitted : u.tokens # <<>>}}

\* the recursive invocation a push trigger starts, run on its own
Invocation(trig) ==
    Run(gram, code,
        [stack |-> <<Frame(trig.dir, trig.line, trig.col + Len(trig.text),
                           trig.off + Len(trig.text))>>,
         status |-> "running", ret |-> <<>>, err |-> NoErr, ctx |-> FreshCtx])

\* C15: for a rule that pushes a mode lex emits one composite token: its
\* children are the text matched, then every token the recursive invocation
\* in the new mode returns; its text is the texts of its children joined, its
\* type the name of the rule, its mode the outer mode; and the outer
\* invocation goes on right after the text of the composite token.
CompositeToken ==
    /\ \A t \in Emitted :
          t.tokens # <<>> =>
             /\ IsTrigger(t.tokens[1])
             /\ t.tokens[1].off = t.off /\ t.tokens[1].inMode = t.inMode
             /\ Tail(t.tokens) = Invocation(t.tokens[1]).ret
             /\ t.text = Concat([k \in 1..Len(t.tokens) |-> t.tokens[k].text])
             /\ t.type = t.tokens[1].type
             /\ t.mode = t.inMode
    /\ \A ts \in TokenSeqs :
          /\ \A k \in 1..(Len(ts) - 1) : ts[k + 1].off = ts[k].off + Len(ts[k].text)
          /\ \A k \in 1..Len(ts) : ~IsTrigger(ts[k]) \/ (k = 1 /\ ts \notin {ret} \cup {stack[i].result : i \in 1..Len(stack)})
    /\ \A i \in 1..Len(stack) :
          (stack[i].result # <<>> /\ stack[i].trigger = <<>>) =>
             stack[i].index = stack[i].result[Len(stack[i].result)].off
                              + Len(stack[i].result[Len(stack[i].result)].text)

\* a call has returned a composite token of three children or more, closed by
\* its pop, with a plain token after it
CompositeTokenWitness ==
    /\ status = "returned"
    /\ \E k \in 1..(Len(ret) - 1) :
          /\ Len(ret[k].tokens) >= 3
          /\ ret[k].tokens[Len(ret[k].tokens)].dir = "-1"
          /\ ret[k + 1].tokens = <<>> /\ ret[k + 1].dir = ""

\* C16 as stated: every token carries the mode that was active when its rule
\* matched: plain tokens, pop tokens, composite tokens and the first child of
\* a composite token alike.
ModeIsActiveMode == \A t \in Emitted : t.mode = t.inMode

\* C16, amended: every token carries the mode that was active when its rule
\* matched, except the text that pushed a mode (the first child of a composite
\* token), which carries the mode it entered.
ModeOfToken ==
    \A t \in Emitted : t.mode = (IF IsTrigger(t) THEN t.dir ELSE t.inMode)

\* a call has returned a composite token of mode main whose first child
\* carries mode sub, with a plain token and a pop token of mode sub after it
ModeOfTokenWitness ==
    /\ status = "returned"
    /\ \E t \in AllTokens(ret) :
          /\ Len(t.tokens) >= 3 /\ t.mode = "main" /\ t.inMode = "main"
          /\ t.tokens[1].mode = "sub" /\ t.tokens[1].inMode = "main"
          /\ t.tokens[2].dir = "" /\ t.tokens[2].tokens = <<>> /\ t.tokens[2].mode = "sub"
          /\ t.tokens[Len(t.tokens)].dir = "-1" /\ t.tokens[Len(t.tokens)].mode = "sub"

RECURSIVE HoldsOpen(_, _)
\* ts is what the i-th invocation returns when the input has ended: its tokens
\* so far and, if it called a deeper invocation, one composite token of the
\* text that pushed and of what that invocation returns
HoldsOpen(ts, i) ==
    IF i = Len(stack) THEN ts = stack[i].result
    ELSE /\ Len(ts) = Len(stack[i].result) + 1
         /\ SubSeq(ts, 1, Len(ts) - 1) = stack[i].result
         /\ ts[Len(ts)].tokens # <<>>
         /\ ts[Len(ts)].tokens[1] = stack[i].trigger[1]
         /\ HoldsOpen(Tail(ts[Len(ts)].tokens), i + 1)

\* the input has ended in the innermost invocation
InputEnded == status = "running" /\ Top(Machine).index >= Len(code)

\* C17: when the input ends while pushed modes are open, lex throws no error:
\* it returns the tokens found, each open composite token holding the tokens
\* found so far in its mode, at every depth.
UnterminatedReturns ==
    InputEnded =>
        /\ Run(gram, code, Machine).status = "returned"
        /\ HoldsOpen(Run(gram, code, Machine).ret, 1)

\* the input has ended with two pushed modes open, after a token in the inner
\* one
UnterminatedWitness ==
    /\ InputEnded /\ Len(stack) >= 3
    /\ Top(Machine).result # <<>>
    /\ stack[1].result # <<>>

\* the call was started in, or a rule of it pushed, a mode that has no rules
Misused ==
    \/ Rules(gram, IF startMode = "" THEN Modes(gram)[1] ELSE startMode) = <<>>
    \/ \E t \in Emitted : IsTrigger(t) /\ Rules(gram, t.dir) = <<>>

\* C19: a call that starts in, or pushes, a mode the grammar does not declare
\* or declares with no rules neither returns tokens nor throws the error of
\* an unknown token (the only error lex throws), whatever the input.
MisuseRejected == status \in {"returned", "threw"} => ~Misused

\* ---------------------------- properties of the html/js grammar, continued
(* The nesting of a text, read character by character: a stack of levels, *)
(* each being script outside any template (js), the inside of a template  *)
(* literal (tpl) or the expression of a placeholder (ph, with the number  *)
(* of braces opened in it and not yet closed).                            *)
Level(k, n) == [k |-> k, n |-> n]

RECURSIVE NestingAt(_, _, _, _)
\* the stack before the character at offset off of text, read from offset i
\* on with stack stk; <<>> if no token can start at off
NestingAt(text, off, i, stk) ==
    LET top == stk[Len(stk)]
        rest == SubSeq(stk, 1, Len(stk) - 1)
    IN  IF i = off THEN stk
        ELSE IF i > off \/ i >= Len(text) THEN <<>>
        ELSE IF top.k = "tpl"
        THEN IF text[i + 1] = BQ THEN NestingAt(text, off, i + 1, rest)
             ELSE IF StartsWith(Slice(text, i), <<"$", "{">>)
             THEN NestingAt(text, off, i + 2, Append(stk, Level("ph", 0)))
             ELSE NestingAt(text, off, i + 1, stk)
        ELSE CASE text[i + 1] = BQ ->
                     NestingAt(text, off, i + 1, Append(stk, Level("tpl", 0)))
               [] text[i + 1] = "{" ->
                     NestingAt(text, off, i + 1, Append(rest, Level(top.k, top.n + 1)))
               [] text[i + 1] = "}" ->
                     NestingAt(text, off, i + 1,
                               IF top.k = "ph" /\ top.n = 0 THEN rest
                               ELSE Append(rest, Level(top.k, top.n - 1)))
               [] text[i + 1] = "$" -> NestingAt(text, off, i + 1, stk)
               [] OTHER -> <<>>

\* the braces open in the placeholder the character at offset off is in; -1 if
\* it is not in the expression of a placeholder
OpenBraces(off) ==
    LET stk == NestingAt(code, off, 0, <<Level("js", 0)>>)
    IN  IF stk = <<>> \/ stk[Len(stk)].k # "ph" THEN -1 ELSE stk[Len(stk)].n

\* C20: in one call on the html/js grammar, a "}" met in js mode inside a
\* placeholder pops back to the template if and only if every "{" opened in
\* the placeholder's expression since its "${" has been closed, also after a
\* template literal nested inside open braces.
BraceClosesPlaceholder ==
    \A t \in Emitted :
        (t.text = <<"}">> /\ t.inMode = "js" /\ OpenBraces(t.off) >= 0) =>
            (t.dir = "-1" <=> OpenBraces(t.off) = 0)

\* ------------------------------------------ properties of fregex, continued
\* C21: a matcher never reports more tokens than it was given: a result that
\* is a match is a count between 0 and the length of the slice.
CountWithinSlice ==
    (Invoked /\ Succeeds(used)) => (0 <= used.n /\ used.n <= Len(toks))

\* C22: every call of a matcher on a finite slice returns; xOrMore does so
\* also when the pattern it wraps matches without using a token of a
\* non-empty slice.
MatcherTerminates == Invoked => used.t # "loop"

\* ------------------------------------------- properties of lex, continued
\* the offset the innermost invocation is at
Cursor == stack[Len(stack)].index

\* the invocations that have pushed a mode and wait for the recursive call
OpenPushes == Cardinality({i \in 1..Len(stack) : stack[i].trigger # <<>>})

\* C23: every iteration of the loop of every invocation moves the cursor on
\* by one character at least; the invocations on the call stack are never
\* more than the modes pushed and not yet popped, plus one; and every call
\* ends, returning its tokens or throwing the unknown-token error.
LexTerminates ==
    /\ [][(status = "running" /\ Cursor < Len(code) /\ status' = "running")
             => Cursor' > Cursor]_vars
    /\ [](status = "running" => Len(stack) <= OpenPushes + 1)
    /\ (status = "running" ~> status \in {"returned", "threw"})

\* a call has returned a composite token inside a composite token, each
\* closed by its pop: three invocations were open, and all of them ended
LexTerminatesWitness ==
    /\ status = "returned" /\ stack = <<>>
    /\ \E t \in AllTokens(ret), u \in AllTokens(ret) :
          /\ t.tokens # <<>> /\ EndsWithPop(t)
          /\ u.tokens # <<>> /\ EndsWithPop(u)
          /\ \E k \in 2..Len(t.tokens) : t.tokens[k] = u

====
